---- MODULE Spec2Model ----
(***************************************************************************)
(* A model of streamlit_app.py: a Streamlit page that loads an uploaded    *)
(* CSV/Excel table, drops rows with nulls, filters the rows by the ticked  *)
(* "Status" values, resolves the chart axes and renders one chart and,     *)
(* optionally, the filtered table.  Streamlit re-executes the whole script *)
(* on every widget change, so every action below is one complete run of    *)
(* the script with the widget values of that run.                          *)
(***************************************************************************)
EXTENDS Integers, Sequences, FiniteSets, TLC

\* ------------------------------------------------------------------ bounds

\* The largest number of data rows of an uploaded table.
MaxRows == 2

\* The largest number of data rows of an uploaded workbook.
MaxSheetRows == 1

\* --------------------------------------------------------------- constants

\* ax.set_xlim(-70, -20) / range_x=[-70, -20]
XLIM_LO == -70
XLIM_HI == -20
\* ax.set_ylim(-70, -20) / range_y=[-70, -20]
YLIM_LO == -70
YLIM_HI == -20

\* A name that no statement has assigned yet (Python: unbound).
Unbound == "<unbound>"
\* No exception.
NoExc == "<none>"

\* ------------------------------------------------------------------- cells

\* A cell of a DataFrame: a number, a string, or the missing value NaN.
Num(v) == [t |-> "num", n |-> v, s |-> ""]
Str(x) == [t |-> "str", n |-> 0, s |-> x]
NaN == [t |-> "nan", n |-> 0, s |-> ""]

\* ------------------------------------------------------------ sequence aids

Range(q) == {q[i] : i \in 1..Len(q)}

\* The elements of q that are in keep, in order.
RECURSIVE Filter(_, _)
Filter(q, keep) ==
  IF q = <<>> THEN <<>>
  ELSE IF Head(q) \in keep THEN <<Head(q)>> \o Filter(Tail(q), keep)
  ELSE Filter(Tail(q), keep)

\* All sequences over S of length at most n.
SeqsUpTo(S, n) == UNION {[1..k -> S] : k \in 0..n}

\* ----------------------------------------------------------- the palette

\* PRO_COLOR_PALETTE: the statuses that have a colour of their own.
PRO_COLOR_PALETTE ==
  [s \in {"Healthy", "1H", "2H", "3H", "4H",
          "1 Scratch", "2 Scratch", "3 Scratch", "4 Scratch"} |->
     CASE s = "Healthy" -> "#4CAF50"
       [] s = "1H" -> "#2196F3"
       [] s = "2H" -> "#FF9800"
       [] s = "3H" -> "#9C27B0"
       [] s = "4H" -> "#795548"
       [] s = "1 Scratch" -> "#E91E63"
       [] s = "2 Scratch" -> "#607D8B"
       [] s = "3 Scratch" -> "#FF5722"
       [] OTHER -> "#009688"]

\* PRO_COLOR_PALETTE.get(status, "#1f77b4")
PaletteGet(status) ==
  IF status \in DOMAIN PRO_COLOR_PALETTE THEN PRO_COLOR_PALETTE[status]
  ELSE "#1f77b4"

\* ------------------------------------------------------------- DataFrames

\* A DataFrame: its columns in order, each with its dtype, and its rows, each
\* with its index label and one cell per column.
NoTable == [columns |-> <<>>, rows |-> <<>>]

\* name in df.columns
HasColumn(t, name) == \E j \in 1..Len(t.columns) : t.columns[j].name = name

\* Index.get_loc(name), 1-based here; 0 when the name is no column.
Loc(t, name) ==
  IF HasColumn(t, name)
  THEN CHOOSE j \in 1..Len(t.columns) : t.columns[j].name = name
  ELSE 0

\* df[name] of one row.
Cell(t, row, name) == row.cells[Loc(t, name)]

\* dropna left out: every row is kept.
dropna_none(t) == t

\* df.dropna(): the rows without any missing cell, in order, index labels kept.
dropna(t) ==
  [t EXCEPT !.rows =
     Filter(t.rows, {r \in Range(t.rows) :
                       \A j \in 1..Len(r.cells) : r.cells[j].t # "nan"})]

\* df.select_dtypes(include=['float64', 'int64']).columns
select_dtypes(t) ==
  LET num == {c \in Range(t.columns) : c.dtype \in {"float64", "int64"}}
      kept == Filter(t.columns, num)
  IN [j \in 1..Len(kept) |-> kept[j].name]

\* df["Status"].unique(): the distinct values in order of first appearance.
RECURSIVE uniqueFrom(_, _, _)
uniqueFrom(t, rows, seen) ==
  IF rows = <<>> THEN <<>>
  ELSE LET v == Cell(t, Head(rows), "Status").s
       IN IF v \in seen THEN uniqueFrom(t, Tail(rows), seen)
          ELSE <<v>> \o uniqueFrom(t, Tail(rows), seen \cup {v})

unique(t) == uniqueFrom(t, t.rows, {})

\* The mask left out: every row is kept.
isin_filter_all(t, selected) == t

\* df[df["Status"].isin(selected)]: a new frame with the rows whose Status is
\* one of the selected values; the columns are the frame's.
isin_filter(t, selected) ==
  [columns |-> t.columns,
   rows |-> Filter(t.rows, {r \in Range(t.rows) :
                              Cell(t, r, "Status").s \in Range(selected)})]

\* ------------------------------------------------------------ file names

\* str.lower() on the characters file names are made of here.
LowerChar(c) ==
  CASE c = "C" -> "c" [] c = "S" -> "s" [] c = "V" -> "v"
    [] c = "X" -> "x" [] c = "L" -> "l" [] c = "T" -> "t"
    [] OTHER -> c

lower(name) == [i \in 1..Len(name) |-> LowerChar(name[i])]

\* str.endswith(suffix)
endswith(name, suffix) ==
  /\ Len(name) >= Len(suffix)
  /\ SubSeq(name, Len(name) - Len(suffix) + 1, Len(name)) = suffix

DotCsv == <<".", "c", "s", "v">>
DotXls == <<".", "x", "l", "s">>
DotXlsx == <<".", "x", "l", "s", "x">>

\* st.sidebar.file_uploader(..., type=["xlsx", "xls", "csv"]): the uploader
\* hands the script only a file whose extension is one of the three.
file_uploader_accepts(name) ==
  \/ endswith(lower(name), DotXlsx)
  \/ endswith(lower(name), DotXls)
  \/ endswith(lower(name), DotCsv)

\* ------------------------------------------------------------- load_data

\* pd.read_csv(file): the table of a file holding CSV text, else the parser
\* raises.
read_csv(file) ==
  IF file.format = "csv"
  THEN [exc |-> NoExc, table |-> file.table, parser |-> "read_csv"]
  ELSE [exc |-> "ParserError", table |-> NoTable, parser |-> "read_csv"]

\* pd.read_excel(file): the table of a file holding a workbook, else the
\* parser raises.
read_excel(file) ==
  IF file.format = "excel"
  THEN [exc |-> NoExc, table |-> file.table, parser |-> "read_excel"]
  ELSE [exc |-> "ValueError", table |-> NoTable, parser |-> "read_excel"]

\* load_data(file): the CSV parser for a name ending in .csv (any case), the
\* Excel parser for every other name.
load_data(file) ==
  IF endswith(lower(file.name), DotCsv) THEN read_csv(file)
  ELSE read_excel(file)

\* ---------------------------------------------------------------- widgets

CHART_TYPES == <<"2D Scatter", "3D Scatter", "Bar Chart">>

\* A select box the session holds no value for.
NoSelect == [options |-> <<>>, index |-> 0, value |-> Unbound]

\* The widget values a run starts with: the status keys whose check box is
\* unticked, the session's value of each select box (with the options and the
\* default index it was built with) and of the two keyed widgets.
NoWidgets ==
  [unchecked |-> {}, x |-> NoSelect, y |-> NoSelect, z |-> NoSelect,
   chart_type |-> Unbound, data_toggle |-> FALSE]

\* st.checkbox(status, value=True, key=status): the session's value of the key,
\* True when it has none.
checkbox(w, status) == status \notin w.unchecked

\* st.sidebar.selectbox(label, options, index=index): the session's value when
\* the widget is the one of the run before (same options, same default),
\* else the option at the default index; None of an empty option list.
selectbox(held, options, index) ==
  IF options = <<>> THEN "None"
  ELSE IF /\ held.options = options
          /\ held.index = index
          /\ held.value \in Range(options)
       THEN held.value
       ELSE options[index]

\* Index.get_loc(name) on an index of names, 1-based; 0 stands for KeyError.
get_loc(names, name) ==
  IF name \in Range(names)
  THEN CHOOSE j \in 1..Len(names) : names[j] = name
  ELSE 0

\* ------------------------------------------------------ the script's steps

\* The page as rendered so far: the charts, the warnings, the error message,
\* the data table, and the axis ranges handed to the chart.
NoPage ==
  [charts |-> {}, warnings |-> {}, error |-> NoExc, table |-> FALSE,
   range_x |-> <<>>, range_y |-> <<>>]

\* The script's variables before its first statement.  last is the line of
\* the last statement completed, exc the exception in flight.
Env0(file, w) ==
  [file |-> file, w |-> w,
   exc |-> NoExc, escaped |-> FALSE, last |-> 45, parser_calls |-> {},
   df |-> NoTable, default_x |-> Unbound, default_y |-> Unbound,
   color_mapping |-> [s \in {} |-> ""], status_options |-> <<>>,
   selected_status |-> <<>>, filtered_df |-> NoTable,
   numeric_cols |-> <<>>, x_axis_column |-> Unbound,
   y_axis_column |-> Unbound, z_axis_column |-> Unbound,
   chart_type |-> Unbound, data_toggle |-> FALSE, page |-> NoPage]

Raise(env, kind) == [env EXCEPT !.exc = kind]

\* df = load_data(uploaded_file)
StmtLoad(env) ==
  LET r == load_data(env.file)
      e == [env EXCEPT !.parser_calls = @ \cup {r.parser}]
  IN IF r.exc # NoExc THEN Raise(e, r.exc)
     ELSE [e EXCEPT !.df = r.table, !.last = 47]

\* df = df.dropna()
StmtDropna(env) == [env EXCEPT !.df = dropna(env.df), !.last = 48]

\* "<preferred>" if "<preferred>" in df.columns else
\* df.select_dtypes(include=['float64', 'int64']).columns[0]
\* ("IndexError" when there is no numeric column to fall back to).
DefaultAxis(df, preferred) ==
  IF HasColumn(df, preferred) THEN preferred
  ELSE IF select_dtypes(df) = <<>> THEN "IndexError"
  ELSE select_dtypes(df)[1]

\* default_x = ...; default_y = ...
StmtDefaults(env) ==
  LET dx == DefaultAxis(env.df, "30.9")
      dy == DefaultAxis(env.df, "89.6")
  IN IF dx = "IndexError" THEN Raise(env, "IndexError")
     ELSE IF dy = "IndexError"
     THEN Raise([env EXCEPT !.default_x = dx, !.last = 51], "IndexError")
     ELSE [env EXCEPT !.default_x = dx, !.default_y = dy, !.last = 52]

\* Only the statuses of the palette get an entry.
ColoredStatusesOfPalette(df) == Range(unique(df)) \cap DOMAIN PRO_COLOR_PALETTE

\* The statuses that get an entry in color_mapping: every distinct Status.
ColoredStatuses(df) == Range(unique(df))

\* color_mapping = {}; for status in df["Status"].unique(): color_mapping[status]
\* = st.sidebar.color_picker(..., PRO_COLOR_PALETTE.get(status, "#1f77b4"))
StmtColors(env) ==
  IF ~HasColumn(env.df, "Status") THEN Raise(env, "KeyError")
  ELSE [env EXCEPT
          !.color_mapping = [s \in ColoredStatuses(env.df) |-> PaletteGet(s)],
          !.last = 59]

\* status_options = df["Status"].unique(); selected_status = the options whose
\* check box is ticked, in order.
StmtCheckboxes(env) ==
  LET options == unique(env.df)
  IN [env EXCEPT
        !.status_options = options,
        !.selected_status =
           Filter(options, {s \in Range(options) : checkbox(env.w, s)}),
        !.last = 68]

\* df = df[df["Status"].isin(selected_status)]: the filter written over df.
StmtFilterInPlace(env) ==
  [env EXCEPT !.df = isin_filter(env.df, env.selected_status),
              !.filtered_df = isin_filter(env.df, env.selected_status),
              !.last = 71]

\* filtered_df = df[df["Status"].isin(selected_status)]
StmtFilter(env) ==
  [env EXCEPT !.filtered_df = isin_filter(env.df, env.selected_status),
              !.last = 71]

\* numeric_cols = df.select_dtypes(...).columns
StmtNumericCols(env) ==
  [env EXCEPT !.numeric_cols = select_dtypes(env.df), !.last = 74]

\* x_axis_column = st.sidebar.selectbox(..., numeric_cols,
\*                                      index=numeric_cols.get_loc(default_x))
StmtXAxis(env) ==
  LET i == get_loc(env.numeric_cols, env.default_x)
  IN IF i = 0 THEN Raise(env, "KeyError")
     ELSE [env EXCEPT
             !.x_axis_column = selectbox(env.w.x, env.numeric_cols, i),
             !.last = 75]

\* y_axis_column = st.sidebar.selectbox(..., numeric_cols,
\*                                      index=numeric_cols.get_loc(default_y))
StmtYAxis(env) ==
  LET i == get_loc(env.numeric_cols, env.default_y)
  IN IF i = 0 THEN Raise(env, "KeyError")
     ELSE [env EXCEPT
             !.y_axis_column = selectbox(env.w.y, env.numeric_cols, i),
             !.last = 76]

\* z_axis_column = st.sidebar.selectbox(..., numeric_cols,
\*   index=numeric_cols.get_loc("RPM") if "RPM" in numeric_cols else 0)
StmtZAxis(env) ==
  LET i == IF "RPM" \in Range(env.numeric_cols)
           THEN get_loc(env.numeric_cols, "RPM") ELSE 1
  IN [env EXCEPT
        !.z_axis_column = selectbox(env.w.z, env.numeric_cols, i),
        !.last = 77]

\* chart_type = st.sidebar.selectbox("Select Chart Type", [...], key="chart_type")
StmtChartType(env) ==
  [env EXCEPT
     !.chart_type = IF env.w.chart_type \in Range(CHART_TYPES)
                    THEN env.w.chart_type ELSE CHART_TYPES[1],
     !.last = 84]

\* The least and the largest number in a column of a frame with rows.
ColMin(frame, column) ==
  LET vs == {Cell(frame, r, column).n : r \in Range(frame.rows)}
  IN CHOOSE v \in vs : \A u \in vs : v <= u

ColMax(frame, column) ==
  LET vs == {Cell(frame, r, column).n : r \in Range(frame.rows)}
  IN CHOOSE v \in vs : \A u \in vs : v >= u

\* The fixed range clamped to the plotted column's actual bounds.
scatter_range_x_clamped(frame, column) ==
  <<IF XLIM_LO < ColMin(frame, column) THEN ColMin(frame, column) ELSE XLIM_LO,
    IF XLIM_HI > ColMax(frame, column) THEN ColMax(frame, column) ELSE XLIM_HI>>

\* The x range of the scatter charts: ax.set_xlim(-70, -20) and
\* range_x=[-70, -20], whatever frame and column are plotted.
scatter_range_x(frame, column) == <<XLIM_LO, XLIM_HI>>

\* The y range of the scatter charts: ax.set_ylim(-70, -20) and
\* range_y=[-70, -20], whatever frame and column are plotted.
scatter_range_y(frame, column) == <<YLIM_LO, YLIM_HI>>

\* if not filtered_df.empty: <the chart of chart_type> else: st.warning(...)
\* The calls into matplotlib and plotly are taken to return.
StmtPlot(env) ==
  IF env.filtered_df.rows = <<>>
  THEN [env EXCEPT
          !.page.warnings =
             @ \cup {"No data available for the selected statuses"},
          !.last = 169]
  ELSE IF env.chart_type = "2D Scatter"
  THEN IF \E s \in Range(env.selected_status) : s \notin DOMAIN env.color_mapping
       THEN Raise(env, "KeyError")
       ELSE [env EXCEPT
               !.page.charts = @ \cup {"2D Scatter"},
               !.page.range_x =
                  scatter_range_x(env.filtered_df, env.x_axis_column),
               !.page.range_y =
                  scatter_range_y(env.filtered_df, env.y_axis_column),
               !.last = 169]
  ELSE IF env.chart_type = "3D Scatter"
  THEN [env EXCEPT
          !.page.charts = @ \cup {"3D Scatter"},
          !.page.range_x = scatter_range_x(env.filtered_df, env.x_axis_column),
          !.page.range_y = scatter_range_y(env.filtered_df, env.y_axis_column),
          !.last = 169]
  ELSE [env EXCEPT !.page.charts = @ \cup {"Bar Chart"}, !.last = 169]

\* if st.checkbox("Show Raw Data", key="data_toggle"): st.write(filtered_df...)
StmtRawData(env) ==
  [env EXCEPT !.data_toggle = env.w.data_toggle,
              !.page.table = env.w.data_toggle,
              !.last = 177]

\* except KeyError: only a missing column is handled.
CaughtKeyErrorOnly(kind) == kind = "KeyError"

\* except Exception: every exception the statements above raise is a
\* subclass of Exception.
Caught(kind) ==
  kind \in {"ParserError", "ValueError", "IndexError", "KeyError"}

\* except Exception as e: st.error(f"Error processing file: {e}")
ExceptHandler(env) ==
  IF env.exc = NoExc THEN env
  ELSE IF Caught(env.exc) THEN [env EXCEPT !.page.error = env.exc]
  ELSE [env EXCEPT !.escaped = TRUE]

\* uploaded_file is None
NoFile == [name |-> <<>>, format |-> "none", table |-> NoTable]

\* The k-th statement of the try block.
Statement(env, k) ==
  CASE k = 1 -> StmtLoad(env)
    [] k = 2 -> StmtDropna(env)
    [] k = 3 -> StmtDefaults(env)
    [] k = 4 -> StmtColors(env)
    [] k = 5 -> StmtCheckboxes(env)
    [] k = 6 -> StmtFilter(env)
    [] k = 7 -> StmtNumericCols(env)
    [] k = 8 -> StmtXAxis(env)
    [] k = 9 -> StmtYAxis(env)
    [] k = 10 -> StmtZAxis(env)
    [] k = 11 -> StmtChartType(env)
    [] k = 12 -> StmtPlot(env)
    [] OTHER -> StmtRawData(env)

\* The statements from the k-th on, in order: a statement runs only when no
\* statement before it raised.  (The state after a statement is bound through
\* a singleton set, so that it is computed once.)
RECURSIVE RunFrom(_, _)
RunFrom(env, k) ==
  IF k > 13 \/ env.exc # NoExc THEN env
  ELSE CHOOSE r \in {RunFrom(e, k + 1) : e \in {Statement(env, k)}} : TRUE

\* The body of the try block.
TryBody(env) == RunFrom(env, 1)

\* One run of the script, top to bottom.
Script(file, w) ==
  IF file = NoFile
  THEN [Env0(file, w) EXCEPT
          !.page.warnings = {"Please upload a file to proceed"}]
  ELSE CHOOSE r \in {ExceptHandler(e) : e \in {TryBody(Env0(file, w))}} : TRUE

\* ----------------------------------------------------------------- inputs

Col(name, dtype) == [name |-> name, dtype |-> dtype]

\* The column layouts of the uploaded tables: the data set the page was
\* written for; "30.9" read as text; no preferred name at all; no numeric
\* column; "RPM" read as text; no "Status" column.
Schemas ==
  { <<Col("30.9", "float64"), Col("89.6", "float64"), Col("RPM", "int64"),
      Col("Status", "object")>>,
    <<Col("30.9", "object"), Col("89.6", "float64"), Col("RPM", "int64"),
      Col("Status", "object")>>,
    <<Col("Status", "object"), Col("Temp", "int64"), Col("Load", "float64")>>,
    <<Col("Status", "object"), Col("Note", "object")>>,
    <<Col("30.9", "float64"), Col("89.6", "float64"), Col("RPM", "object"),
      Col("Status", "object")>>,
    <<Col("30.9", "float64"), Col("89.6", "float64"), Col("RPM", "int64")>> }

\* The Status values of the uploaded rows; "Worn" has no palette colour.
StatusValues == {"Healthy", "Worn"}

\* What a row holds: its Status, the number in its numeric cells, and which
\* of its cells are missing.  The rows of a table are taken from this list,
\* in its order.
RowKinds ==
  << [st |-> "Healthy", lvl |-> -80, null |-> "none"],
     [st |-> "Worn", lvl |-> -10, null |-> "none"],
     [st |-> "Worn", lvl |-> -45, null |-> "Status"],
     [st |-> "Healthy", lvl |-> -45, null |-> "numeric"] >>

\* The ways to take at most n rows from the list.
Picks(n) ==
  {p \in SeqsUpTo(1..Len(RowKinds), n) :
     \A i \in 1..(Len(p) - 1) : p[i] < p[i + 1]}

MkCell(c, kind) ==
  IF c.name = "Status"
  THEN (IF kind.null = "Status" THEN NaN ELSE Str(kind.st))
  ELSE IF c.dtype = "object" THEN Str("text")
  ELSE IF kind.null = "numeric" THEN NaN
  ELSE Num(kind.lvl)

\* The table the parser returns: an integer column with a missing cell is
\* read as float64, and a column of a file without data rows as object.
MkTable(schema, kinds) ==
  LET rows == [i \in 1..Len(kinds) |->
                 [idx |-> i - 1,
                  cells |-> [j \in 1..Len(schema) |->
                               MkCell(schema[j], RowKinds[kinds[i]])]]]
      dtype(j) ==
        IF kinds = <<>> THEN "object"
        ELSE IF /\ schema[j].dtype = "int64"
                /\ \E i \in 1..Len(kinds) : rows[i].cells[j].t = "nan"
        THEN "float64" ELSE schema[j].dtype
  IN [columns |-> [j \in 1..Len(schema) |-> Col(schema[j].name, dtype(j))],
      rows |-> rows]

Tables == {MkTable(sc, p) : sc \in Schemas, p \in Picks(MaxRows)}

\* The tables of the uploaded workbooks: the first rows of the list.
Sheets == {MkTable(sc, [i \in 1..n |-> i]) : sc \in Schemas, n \in 0..MaxSheetRows}

\* File names: upper-case .CSV, .xlsx, and one the uploader turns away.
NameCsv == <<"d", ".", "C", "S", "V">>
NameXlsx == <<"b", ".", "x", "l", "s", "x">>
NameTxt == <<"n", ".", "t", "x", "t">>
Names == {NameCsv, NameXlsx, NameTxt}

\* A file: its name, what its bytes are, and the table they hold.  A file of
\* bytes neither parser reads has the format "garbage".
Files ==
  {[name |-> NameCsv, format |-> "csv", table |-> t] : t \in Tables}
  \cup {[name |-> n, format |-> "excel", table |-> t] :
          n \in Names, t \in Sheets}
  \cup {[name |-> n, format |-> "garbage", table |-> NoTable] : n \in Names}

\* ------------------------------------------------------------------ state

VARIABLES
  uploaded_file,     \* the uploader's file, NoFile for None
  df, default_x, default_y, color_mapping, status_options, selected_status,
  filtered_df, numeric_cols, x_axis_column, y_axis_column, z_axis_column,
  chart_type, data_toggle,   \* the script's variables after the last run
  page,              \* what the last run rendered
  parser_calls,      \* the parsers the last run called
  exc,               \* the exception the last run raised, NoExc for none
  escaped,           \* whether it escaped the script's handler
  last               \* the line of the last statement the run completed

vars ==
  <<uploaded_file, df, default_x, default_y, color_mapping,
    status_options, selected_status, filtered_df, numeric_cols, x_axis_column,
    y_axis_column, z_axis_column, chart_type, data_toggle, page, parser_calls,
    exc, escaped, last>>

\* The variables after a run of the script that ended in env.
Assign(env) ==
  /\ df = env.df
  /\ default_x = env.default_x
  /\ default_y = env.default_y
  /\ color_mapping = env.color_mapping
  /\ status_options = env.status_options
  /\ selected_status = env.selected_status
  /\ filtered_df = env.filtered_df
  /\ numeric_cols = env.numeric_cols
  /\ x_axis_column = env.x_axis_column
  /\ y_axis_column = env.y_axis_column
  /\ z_axis_column = env.z_axis_column
  /\ chart_type = env.chart_type
  /\ data_toggle = env.data_toggle
  /\ page = env.page
  /\ parser_calls = env.parser_calls
  /\ exc = env.exc
  /\ escaped = env.escaped
  /\ last = env.last

\* The same of the next state.
AssignNext(env) ==
  /\ df' = env.df
  /\ default_x' = env.default_x
  /\ default_y' = env.default_y
  /\ color_mapping' = env.color_mapping
  /\ status_options' = env.status_options
  /\ selected_status' = env.selected_status
  /\ filtered_df' = env.filtered_df
  /\ numeric_cols' = env.numeric_cols
  /\ x_axis_column' = env.x_axis_column
  /\ y_axis_column' = env.y_axis_column
  /\ z_axis_column' = env.z_axis_column
  /\ chart_type' = env.chart_type
  /\ data_toggle' = env.data_toggle
  /\ page' = env.page
  /\ parser_calls' = env.parser_calls
  /\ exc' = env.exc
  /\ escaped' = env.escaped
  /\ last' = env.last

\* The session's widget values after the last run: a widget the run did not
\* reach is forgotten.
Session ==
  [unchecked |-> IF last >= 68
                 THEN Range(status_options) \ Range(selected_status) ELSE {},
   x |-> IF last >= 75
         THEN [options |-> numeric_cols,
               index |-> get_loc(numeric_cols, default_x),
               value |-> x_axis_column]
         ELSE NoSelect,
   y |-> IF last >= 76
         THEN [options |-> numeric_cols,
               index |-> get_loc(numeric_cols, default_y),
               value |-> y_axis_column]
         ELSE NoSelect,
   z |-> IF last >= 77
         THEN [options |-> numeric_cols,
               index |-> IF "RPM" \in Range(numeric_cols)
                         THEN get_loc(numeric_cols, "RPM") ELSE 1,
               value |-> z_axis_column]
         ELSE NoSelect,
   chart_type |-> IF last >= 84 THEN chart_type ELSE Unbound,
   data_toggle |-> last >= 177 /\ data_toggle]

\* Streamlit runs the script with the file and the widget values w.
Rerun(file, w) ==
  /\ uploaded_file' = file
  /\ \E env \in {Script(file, w)} : AssignNext(env)

Init ==
  /\ uploaded_file = NoFile
  /\ \E env \in {Script(NoFile, NoWidgets)} : Assign(env)

\* The user picks a file in the uploader.
Upload(f) ==
  /\ file_uploader_accepts(f.name)
  /\ Rerun(f, Session)

\* The user removes the file from the uploader.
RemoveFile ==
  /\ uploaded_file # NoFile
  /\ Rerun(NoFile, Session)

\* The user ticks or unticks the check box of a status.
ToggleStatus(s) ==
  /\ last >= 68
  /\ s \in Range(status_options)
  /\ Rerun(uploaded_file,
           [Session EXCEPT !.unchecked =
              IF s \in @ THEN @ \ {s} ELSE @ \cup {s}])

\* The user picks a column in one of the three axis select boxes.
SelectX(c) ==
  /\ last >= 75
  /\ c \in Range(numeric_cols)
  /\ c # x_axis_column
  /\ Rerun(uploaded_file, [Session EXCEPT !.x.value = c])

SelectY(c) ==
  /\ last >= 76
  /\ c \in Range(numeric_cols)
  /\ c # y_axis_column
  /\ Rerun(uploaded_file, [Session EXCEPT !.y.value = c])

SelectZ(c) ==
  /\ last >= 77
  /\ c \in Range(numeric_cols)
  /\ c # z_axis_column
  /\ Rerun(uploaded_file, [Session EXCEPT !.z.value = c])

\* The user picks a chart type.
SelectChart(t) ==
  /\ last >= 84
  /\ t # chart_type
  /\ Rerun(uploaded_file, [Session EXCEPT !.chart_type = t])

\* The user ticks or unticks "Show Raw Data".
ToggleRawData ==
  /\ last >= 177
  /\ Rerun(uploaded_file, [Session EXCEPT !.data_toggle = ~@])

ColumnUniverse == {"30.9", "89.6", "RPM", "Temp", "Load"}

Next ==
  \/ \E f \in Files : Upload(f)
  \/ RemoveFile
  \/ \E s \in StatusValues : ToggleStatus(s)
  \/ \E c \in ColumnUniverse : SelectX(c)
  \/ \E c \in ColumnUniverse : SelectY(c)
  \/ \E c \in ColumnUniverse : SelectZ(c)
  \/ \E t \in Range(CHART_TYPES) : SelectChart(t)
  \/ ToggleRawData

Spec == Init /\ [][Next]_vars

\* ------------------------------------------------- load_data on its own

\* load_data is a function of the file handle alone: here it is applied to
\* every file handle, whatever its name.
NameXls == <<"o", ".", "x", "l", "s">>
NameBare == <<"c", "s", "v">>
LoadNames == Names \cup {NameXls, NameBare}

LoadFiles ==
  {[name |-> n, format |-> f, table |-> t] :
      n \in LoadNames, f \in {"csv", "excel"}, t \in Tables}
  \cup {[name |-> n, format |-> "garbage", table |-> NoTable] : n \in LoadNames}

LoadInit ==
  \E f \in LoadFiles :
    /\ uploaded_file = f
    /\ \E env \in {Env0(f, NoWidgets)} : Assign(env)

\* df = load_data(file)
CallLoadData ==
  /\ last = 45
  /\ uploaded_file' = uploaded_file
  /\ \E env \in {StmtLoad(Env0(uploaded_file, NoWidgets))} : AssignNext(env)

LoadNext == CallLoadData

LoadSpec == LoadInit /\ [][LoadNext]_vars

\* ----------------------------------------------------------------- claims

\* The uploaded table and its rows without a missing cell, read off the file.
Uploaded == uploaded_file.table
HasNoNaN(r) == \A j \in 1..Len(r.cells) : r.cells[j].t # "nan"
NonNullRows == SelectSeq(Uploaded.rows, HasNoNaN)

\* The Status of a row of the uploaded table.
StatusOf(r) ==
  r.cells[CHOOSE j \in 1..Len(Uploaded.columns) :
            Uploaded.columns[j].name = "Status"].s

\* The distinct Status values of the rows without a missing cell.
StatusDomain == {StatusOf(r) : r \in Range(NonNullRows)}

\* The numeric columns of the uploaded table, in order.
IsNumeric(c) == c.dtype \in {"float64", "int64"}
NumericNames ==
  LET kept == SelectSeq(Uploaded.columns, IsNumeric)
  IN [j \in 1..Len(kept) |-> kept[j].name]

\* C1: once the filter has run, every row of the filtered view is a row of
\* the uploaded table without a missing cell, and its Status is one of the
\* selected statuses; no row with a Status outside the selection is in it.
C1_FilterSound ==
  last >= 71 =>
    \A i \in 1..Len(filtered_df.rows) :
      /\ filtered_df.rows[i] \in Range(NonNullRows)
      /\ StatusOf(filtered_df.rows[i]) \in Range(selected_status)

\* A two-row table of which the filter kept one row and dropped the other.
C1_Witness ==
  /\ last >= 71
  /\ Len(Uploaded.rows) = 2
  /\ Len(df.rows) = 2
  /\ Len(filtered_df.rows) = 1
  /\ selected_status # <<>>

\* C2: with every status of the Status column selected, the filtered view is
\* exactly the uploaded table without its rows that have a missing cell: the
\* same rows in the same order, the same columns.
C2_IdentityFilter ==
  (last >= 71 /\ Range(selected_status) = StatusDomain) =>
    /\ filtered_df.rows = NonNullRows
    /\ filtered_df.columns = Uploaded.columns

\* Both statuses ticked on a table of two rows with different statuses.
C2_Witness ==
  /\ last >= 71
  /\ Cardinality(Range(selected_status)) = 2
  /\ Range(selected_status) = StatusDomain
  /\ Len(filtered_df.rows) = 2

\* C3 (as claimed): every resolved default axis is a numeric column of the
\* table, also when a column of the preferred name exists and is not numeric.
C3_DefaultsNumeric ==
  /\ last >= 52 => /\ default_x \in Range(NumericNames)
                   /\ default_y \in Range(NumericNames)
  /\ last >= 77 => z_axis_column \in Range(NumericNames)

\* The axis the rule of the claim resolves to: the preferred column when it
\* exists and is numeric, else the first numeric column, else None.
C4_Rule(preferred) ==
  IF preferred \in Range(NumericNames) THEN preferred
  ELSE IF NumericNames # <<>> THEN NumericNames[1]
  ELSE "None"

\* C4 (as claimed): on a loaded table each default axis is what the rule
\* resolves to, and when the rule resolves to None no chart is drawn and a
\* warning is shown.
C4_ResolvesByRule ==
  last >= 48 =>
    /\ C4_Rule("30.9") # "None" => default_x = C4_Rule("30.9")
    /\ C4_Rule("89.6") # "None" => default_y = C4_Rule("89.6")
    /\ C4_Rule("30.9") = "None" => (page.charts = {} /\ page.warnings # {})

\* C5 (as claimed): when no status is selected the filtered view has no rows,
\* no chart is drawn, a warning is shown and the run does not end in an error.
C5_NothingSelected ==
  (last >= 71 /\ selected_status = <<>>) =>
    /\ filtered_df.rows = <<>>
    /\ page.charts = {}
    /\ page.warnings # {}
    /\ exc = NoExc
    /\ page.error = NoExc

\* C6: a run that raises ends with the error shown and nothing else of the
\* result: no chart, no data table, and the exception does not leave the
\* handler; a loaded table without a "Status" column always ends so.
C6_NoPartialOutput ==
  /\ exc # NoExc =>
       /\ page.error = exc
       /\ page.charts = {}
       /\ ~page.table
       /\ ~escaped
  /\ (last >= 47 /\ \A j \in 1..Len(Uploaded.columns) :
                       Uploaded.columns[j].name # "Status") =>
       exc # NoExc

\* A table with numeric columns and no "Status" column: the colour loop raised.
C6_Witness ==
  /\ last = 52
  /\ exc = "KeyError"
  /\ page.error = "KeyError"
  /\ NumericNames # <<>>

\* The extensions the claim calls supported.
C7_Supported(name) ==
  \/ endswith(lower(name), DotCsv)
  \/ endswith(lower(name), DotXls)
  \/ endswith(lower(name), DotXlsx)

C8_RangeWithinActual ==
  /\ page.range_x # <<>> =>
       /\ ColMin(filtered_df, x_axis_column) <= page.range_x[1]
       /\ page.range_x[2] <= ColMax(filtered_df, x_axis_column)
  /\ page.range_y # <<>> =>
       /\ ColMin(filtered_df, y_axis_column) <= page.range_y[1]
       /\ page.range_y[2] <= ColMax(filtered_df, y_axis_column)

\* C8 (amended): the x and y ranges of a scatter chart are the fixed interval
\* from -70 to -20 whatever the plotted columns hold, and no range is applied
\* with the bar chart or when no chart is drawn.
C8_FixedRange ==
  /\ page.charts \cap {"2D Scatter", "3D Scatter"} # {} =>
       /\ page.range_x = <<-70, -20>>
       /\ page.range_y = <<-70, -20>>
  /\ page.charts \cap {"2D Scatter", "3D Scatter"} = {} =>
       /\ page.range_x = <<>>
       /\ page.range_y = <<>>

\* A scatter chart of a column whose values all lie below the fixed range.
C8_Witness ==
  /\ "2D Scatter" \in page.charts
  /\ ColMax(filtered_df, x_axis_column) < -70
  /\ page.range_x # <<>>

\* C9: the filter leaves the loaded table as it was (the uploaded table
\* without its rows that have a missing cell), the filtered view has the
\* table's columns, and it has at most as many rows.
C9_FilterPure ==
  last >= 71 =>
    /\ df.rows = NonNullRows
    /\ df.columns = Uploaded.columns
    /\ filtered_df.columns = df.columns
    /\ Len(filtered_df.rows) <= Len(df.rows)

\* A chart drawn from a view that has fewer rows than the table.
C9_Witness ==
  /\ last >= 169
  /\ page.charts # {}
  /\ Len(filtered_df.rows) < Len(df.rows)

\* C10: in a run that reaches the plotting, every selected status has a colour
\* in color_mapping, and the colour lookup of the 2D scatter does not raise.
C10_ColorsCoverSelected ==
  last >= 84 =>
    /\ Range(selected_status) \subseteq DOMAIN color_mapping
    /\ ~(last = 84 /\ exc = "KeyError")

\* A 2D scatter drawn with a status selected that the palette has no colour for.
C10_Witness ==
  /\ last >= 169
  /\ "2D Scatter" \in page.charts
  /\ "Worn" \in Range(selected_status)
====
